---- MODULE Spec2Model ----
(***************************************************************************)
(* Model of pymeasure/adapters/protocol.py: the byte normaliser to_bytes   *)
(* and the ProtocolAdapter mock transport (comm_pairs, _index,             *)
(* _write_buffer, _read_buffer; write, write_bytes, read, read_bytes).     *)
(*                                                                         *)
(* Bytes objects are sequences of integers 0..255, text is a sequence of   *)
(* code points.  A value handed to to_bytes is a record [tag, val]: tag is *)
(* the Python type, val the payload (always a sequence, <<n>> for an int). *)
(* Python's 0-based index i is comm_pairs[i + 1] here.                     *)
(***************************************************************************)
EXTENDS Integers, Sequences, FiniteSets, TLC

\* ---------------------------------------------------------------- bounds
MaxSteps == 2          \* longest comm_pairs list
MaxCount == 2          \* read_bytes counts range over -MaxCount..MaxCount
MaxContent == 1        \* longest content of one write_bytes call
MaxWriteBuffer == 2    \* cap on the length of the accumulated _write_buffer
MaxNormLen == 2        \* longest bytes, text or list handed to to_bytes alone
MaxNormInt == 12       \* integers handed to to_bytes alone: -MaxNormInt..MaxNormInt

\* ------------------------------------------------------- python values
NoneV == [tag |-> "None", val |-> <<>>]
BytesV(s) == [tag |-> "bytes", val |-> s]
StrV(s) == [tag |-> "str", val |-> s]
ListV(s) == [tag |-> "list", val |-> s]
IntV(n) == [tag |-> "int", val |-> <<n>>]
Other == [tag |-> "dict", val |-> <<>>]

Min(a, b) == IF a < b THEN a ELSE b
Max(a, b) == IF a > b THEN a ELSE b

\* a slice that takes a negative count as "everything"
SliceToAll(buf, count) ==
    IF count >= 0 THEN SubSeq(buf, 1, Min(count, Len(buf))) ELSE buf

\* buf[:count] of Python, negative counts counted from the end
SliceTo(buf, count) ==
    LET n == Len(buf)
        stop == IF count >= 0 THEN Min(count, n) ELSE Max(n + count, 0)
    IN  SubSeq(buf, 1, stop)

\* a remainder that is dropped altogether under a negative count
SliceFromDrain(buf, count) ==
    IF count >= 0 THEN SubSeq(buf, Min(count, Len(buf)) + 1, Len(buf)) ELSE <<>>

\* a remainder that still holds the bytes just returned
SliceFromKeep(buf, count) == buf

\* buf[count:] of Python, negative counts counted from the end
SliceFrom(buf, count) ==
    LET n == Len(buf)
        start == IF count >= 0 THEN Min(count, n) ELSE Max(n + count, 0)
    IN  SubSeq(buf, start + 1, n)

\* str.encode("utf-8") of one code point
EncodeChar(cp) ==
    IF cp < 128 THEN <<cp>>
    ELSE IF cp < 2048 THEN <<192 + (cp \div 64), 128 + (cp % 64)>>
    ELSE IF cp < 65536 THEN
        <<224 + (cp \div 4096), 128 + ((cp \div 64) % 64), 128 + (cp % 64)>>
    ELSE <<240 + (cp \div 262144), 128 + ((cp \div 4096) % 64),
           128 + ((cp \div 64) % 64), 128 + (cp % 64)>>

RECURSIVE Encode(_)
Encode(s) == IF s = <<>> THEN <<>> ELSE EncodeChar(Head(s)) \o Encode(Tail(s))

\* str(n) of an integer, as code points
RECURSIVE Digits(_)
Digits(n) == IF n < 10 THEN <<48 + n>> ELSE Digits(n \div 10) \o <<48 + (n % 10)>>

IntStr(n) == IF n < 0 THEN <<45>> \o Digits(0 - n) ELSE Digits(n)

IsCont(b) == b >= 128 /\ b <= 191

\* number of bytes of the UTF-8 sequence opened by lead byte b, 0 if invalid
LeadLen(b) ==
    IF b < 128 THEN 1
    ELSE IF b >= 194 /\ b <= 223 THEN 2
    ELSE IF b >= 224 /\ b <= 239 THEN 3
    ELSE IF b >= 240 /\ b <= 244 THEN 4
    ELSE 0

\* code point of the well-formed sequence at the head of b, -1 if ill-formed
HeadCodePoint(b) ==
    LET k == LeadLen(b[1]) IN
    IF k = 0 \/ Len(b) < k THEN -1
    ELSE IF k = 1 THEN b[1]
    ELSE IF \E i \in 2..k : ~IsCont(b[i]) THEN -1
    ELSE IF k = 2 THEN (b[1] - 192) * 64 + (b[2] - 128)
    ELSE IF k = 3 THEN
        LET cp == (b[1] - 224) * 4096 + (b[2] - 128) * 64 + (b[3] - 128) IN
        IF cp < 2048 \/ (cp >= 55296 /\ cp <= 57343) THEN -1 ELSE cp
    ELSE
        LET cp == (b[1] - 240) * 262144 + (b[2] - 128) * 4096
                  + (b[3] - 128) * 64 + (b[4] - 128) IN
        IF cp < 65536 \/ cp > 1114111 THEN -1 ELSE cp

\* does bytes.decode("utf-8") succeed
RECURSIVE CanDecode(_)
CanDecode(b) ==
    IF b = <<>> THEN TRUE
    ELSE /\ HeadCodePoint(b) >= 0
         /\ CanDecode(SubSeq(b, LeadLen(b[1]) + 1, Len(b)))

\* bytes.decode("utf-8") of a decodable byte sequence
RECURSIVE Decode(_)
Decode(b) ==
    IF b = <<>> THEN <<>>
    ELSE <<HeadCodePoint(b)>> \o Decode(SubSeq(b, LeadLen(b[1]) + 1, Len(b)))

\* a normaliser that sends bytes through str(command) like a number
to_bytes_bytes_as_text(command) ==
    IF command.tag = "bytes" THEN <<98, 39>> \o command.val \o <<39>>
    ELSE IF command.tag = "None" THEN <<>>
    ELSE IF command.tag = "str" THEN Encode(command.val)
    ELSE IF command.tag = "list" THEN command.val
    ELSE IF command.tag = "int" THEN Encode(IntStr(command.val[1]))
    ELSE <<>>

\* a normaliser without the None case, which falls through to str(command)
to_bytes_none_as_text(command) ==
    IF command.tag = "bytes" THEN command.val
    ELSE IF command.tag = "None" THEN <<78, 111, 110, 101>>
    ELSE IF command.tag = "str" THEN Encode(command.val)
    ELSE IF command.tag = "list" THEN command.val
    ELSE IF command.tag = "int" THEN Encode(IntStr(command.val[1]))
    ELSE <<>>

\* the exception to_bytes raises on command, "none" when it returns
to_bytes_raises(command) ==
    IF command.tag \in {"bytes", "None", "int"} THEN "none"
    ELSE IF command.tag = "str" THEN
        \* str.encode("utf-8") rejects the surrogates U+D800..U+DFFF
        IF \E i \in 1..Len(command.val) :
              command.val[i] >= 55296 /\ command.val[i] <= 57343
        THEN "UnicodeEncodeError" ELSE "none"
    ELSE IF command.tag = "list" THEN
        IF \A i \in 1..Len(command.val) : command.val[i] \in 0..255
        THEN "none" ELSE "ValueError"
    ELSE "TypeError"

\* to_bytes(command) when it returns
to_bytes(command) ==
    IF command.tag = "bytes" THEN command.val
    ELSE IF command.tag = "None" THEN <<>>
    ELSE IF command.tag = "str" THEN Encode(command.val)
    ELSE IF command.tag = "list" THEN command.val
    ELSE IF command.tag = "int" THEN Encode(IntStr(command.val[1]))
    ELSE <<>>

\* ------------------------------------------------------------------ state
\* the list of [write, read] pairs, fixed at construction
VARIABLE comm_pairs
\* self._index
VARIABLE index
\* self._write_buffer
VARIABLE write_buffer
\* self._read_buffer
VARIABLE read_buffer
\* the last call: its operation, argument and outcome, and the adapter's
\* buffers and index when it was entered
VARIABLE last
\* the bytes the read_bytes calls made so far have returned, in order
VARIABLE delivered
\* a value handed to to_bytes on its own, outside any adapter
VARIABLE norm_input
\* the results of to_bytes on norm_input and then on its own result
VARIABLE norm_output

vars == <<comm_pairs, index, write_buffer, read_buffer, last, delivered,
          norm_input, norm_output>>

\* the values a test declares as expected writes and canned reads
PWrites == {NoneV, BytesV(<<65, 66>>)}
PReads == {NoneV, StrV(<<233, 67>>)}

Pairs == {[write |-> w, read |-> r] : w \in PWrites, r \in PReads}

RECURSIVE SeqsUpTo(_, _)
SeqsUpTo(S, n) ==
    IF n = 0 THEN {<<>>}
    ELSE LET shorter == SeqsUpTo(S, n - 1) IN
         shorter \cup {Append(q, x) : q \in {t \in shorter : Len(t) = n - 1}, x \in S}

\* contents of write_bytes calls, commands of write calls, read_bytes counts
Contents == SeqsUpTo({65, 66}, MaxContent)
Commands == {NoneV, StrV(<<65>>), ListV(<<65, 66>>), IntV(7), Other}
Counts == (0 - MaxCount)..MaxCount

Adapter == [index |-> index, write_buffer |-> write_buffer, read_buffer |-> read_buffer]

\* an outcome: the adapter after the call, the exception raised and the
\* value returned
Outcome(i, wb, rb, err, ret) ==
    [index |-> i, write_buffer |-> wb, read_buffer |-> rb, err |-> err, ret |-> ret]

\* a prefix-accepting comparison in place of the equality of line 78
WriteMatchesPrefix(buffer, p_write) ==
    /\ Len(buffer) <= Len(to_bytes(p_write))
    /\ buffer = SubSeq(to_bytes(p_write), 1, Len(buffer))

\* line 78: the accumulated buffer is the whole expected command
WriteMatches(buffer, p_write) == buffer = to_bytes(p_write)

\* an index that skips a pair
NextIndexSkip(i) == i + 2

\* an index that is never advanced
NextIndexStuck(i) == i

\* lines 85 and 101: self._index += 1
NextIndex(i) == i + 1

\* an unread response that is overwritten without complaint
UnreadResponseIgnored(buffer) == FALSE

\* line 79: the assertion on self._read_buffer fails
UnreadResponse(buffer) == buffer # <<>>

\* a read served whatever the pair's write member is
ReadAllowedAlways(p_write) == TRUE

\* line 99: the assertion "p_write is None" holds
ReadAllowed(p_write) == p_write = NoneV

\* an exhausted list that ends the call without an exception
SequenceExhaustedSilent(s, wb) == Outcome(s.index, wb, s.read_buffer, "none", <<>>)

\* lines 77 and 98: comm_pairs[self._index] raises IndexError past the end
SequenceExhausted(s, wb) == Outcome(s.index, wb, s.read_buffer, "IndexError", <<>>)

\* write_bytes(content) entered in adapter state s
write_bytes(s, content) ==
    LET wb == s.write_buffer \o content IN
    IF s.index >= Len(comm_pairs)
    THEN SequenceExhausted(s, wb)
    ELSE LET p_write == comm_pairs[s.index + 1].write
             p_read == comm_pairs[s.index + 1].read
         IN  IF to_bytes_raises(p_write) # "none"
             THEN Outcome(s.index, wb, s.read_buffer, to_bytes_raises(p_write), <<>>)
             ELSE IF WriteMatches(wb, p_write)
             THEN IF UnreadResponse(s.read_buffer)
                  THEN Outcome(s.index, wb, s.read_buffer, "UnreadResponse", <<>>)
                  \* line 83 has emptied the buffer when line 84 raises
                  ELSE IF to_bytes_raises(p_read) # "none"
                  THEN Outcome(s.index, <<>>, s.read_buffer, to_bytes_raises(p_read), <<>>)
                  ELSE Outcome(NextIndex(s.index), <<>>, to_bytes(p_read), "none", <<>>)
             ELSE Outcome(s.index, wb, s.read_buffer, "none", <<>>)

\* a write that does not look at the buffer after write_bytes
write_unchecked(s, command) ==
    IF to_bytes_raises(command) # "none"
    THEN Outcome(s.index, s.write_buffer, s.read_buffer, to_bytes_raises(command), <<>>)
    ELSE write_bytes(s, to_bytes(command))

\* a write that takes its bytes back out of the buffer when it fails
write_rollback(s, command) ==
    IF to_bytes_raises(command) # "none"
    THEN Outcome(s.index, s.write_buffer, s.read_buffer, to_bytes_raises(command), <<>>)
    ELSE LET r == write_bytes(s, to_bytes(command)) IN
         IF r.err # "none" THEN [r EXCEPT !.write_buffer = s.write_buffer]
         ELSE IF r.write_buffer # <<>>
         THEN [r EXCEPT !.err = "WriteNotMatched", !.write_buffer = s.write_buffer]
         ELSE r

\* write(command) entered in adapter state s
write(s, command) ==
    IF to_bytes_raises(command) # "none"
    THEN Outcome(s.index, s.write_buffer, s.read_buffer, to_bytes_raises(command), <<>>)
    ELSE LET r == write_bytes(s, to_bytes(command)) IN
         IF r.err # "none" THEN r
         ELSE IF r.write_buffer # <<>> THEN [r EXCEPT !.err = "WriteNotMatched"]
         ELSE r

\* read_bytes(count) entered in adapter state s
read_bytes(s, count) ==
    IF s.read_buffer # <<>>
    THEN Outcome(s.index, s.write_buffer, SliceFrom(s.read_buffer, count), "none",
                 SliceTo(s.read_buffer, count))
    ELSE IF s.index >= Len(comm_pairs)
    THEN SequenceExhausted(s, s.write_buffer)
    ELSE LET p_write == comm_pairs[s.index + 1].write
             p_read == comm_pairs[s.index + 1].read
         IN  IF ~ReadAllowed(p_write)
             THEN Outcome(s.index, s.write_buffer, s.read_buffer, "UnexpectedRead", <<>>)
             ELSE IF to_bytes_raises(p_read) # "none"
             THEN Outcome(s.index, s.write_buffer, s.read_buffer,
                          to_bytes_raises(p_read), <<>>)
             ELSE Outcome(NextIndex(s.index), s.write_buffer,
                          SliceFrom(to_bytes(p_read), count), "none",
                          SliceTo(to_bytes(p_read), count))

\* a read made of the first read_bytes call only
read_drain_only(s) ==
    LET r1 == read_bytes(s, -1) IN
    IF r1.err # "none" THEN r1
    ELSE IF ~CanDecode(r1.ret)
    THEN [r1 EXCEPT !.err = "UnicodeDecodeError", !.ret = <<>>]
    ELSE [r1 EXCEPT !.ret = Decode(r1.ret)]

\* read() entered in adapter state s; the returned text is code points
read(s) ==
    LET r1 == read_bytes(s, -1) IN
    IF r1.err # "none" THEN r1
    ELSE LET r2 == read_bytes(r1, 1) IN
         IF r2.err # "none" THEN r2
         ELSE IF ~CanDecode(r1.ret \o r2.ret)
         THEN [r2 EXCEPT !.err = "UnicodeDecodeError", !.ret = <<>>]
         ELSE [r2 EXCEPT !.ret = Decode(r1.ret \o r2.ret)]

\* the bytes the two read_bytes calls of read() return, entered in state s
read_returned(s) ==
    LET r1 == read_bytes(s, -1) IN
    IF r1.err # "none" THEN <<>>
    ELSE LET r2 == read_bytes(r1, 1) IN
         IF r2.err # "none" THEN r1.ret ELSE r1.ret \o r2.ret

\* the record of a call
Call(op, content, command, count, r) ==
    [op |-> op, content |-> content, command |-> command, count |-> count,
     err |-> r.err, ret |-> r.ret, pre |-> Adapter]

Apply(r) ==
    /\ index' = r.index
    /\ write_buffer' = r.write_buffer
    /\ read_buffer' = r.read_buffer
    /\ UNCHANGED <<comm_pairs, norm_input, norm_output>>

\* ProtocolAdapter.__init__
Init ==
    /\ comm_pairs \in SeqsUpTo(Pairs, MaxSteps)
    /\ index = 0
    /\ write_buffer = <<>>
    /\ read_buffer = <<>>
    /\ last = [op |-> "init", content |-> <<>>, command |-> NoneV, count |-> 0,
               err |-> "none", ret |-> <<>>,
               pre |-> [index |-> 0, write_buffer |-> <<>>, read_buffer |-> <<>>]]
    /\ delivered = <<>>
    /\ norm_input = NoneV
    /\ norm_output = <<>>

WriteBytes ==
    \E content \in Contents :
        /\ Len(write_buffer) + Len(content) <= MaxWriteBuffer
        /\ Apply(write_bytes(Adapter, content))
        /\ last' = Call("write_bytes", content, NoneV, 0, write_bytes(Adapter, content))
        /\ UNCHANGED delivered

Write ==
    \E command \in Commands :
        /\ \/ to_bytes_raises(command) # "none"
           \/ Len(write_buffer) + Len(to_bytes(command)) <= MaxWriteBuffer
        /\ Apply(write(Adapter, command))
        /\ last' = Call("write", <<>>, command, 0, write(Adapter, command))
        /\ UNCHANGED delivered

ReadBytes ==
    \E count \in Counts :
        /\ Apply(read_bytes(Adapter, count))
        /\ last' = Call("read_bytes", <<>>, NoneV, count, read_bytes(Adapter, count))
        /\ delivered' = delivered \o read_bytes(Adapter, count).ret

Read ==
    /\ Apply(read(Adapter))
    /\ last' = Call("read", <<>>, NoneV, 0, read(Adapter))
    /\ delivered' = delivered \o read_returned(Adapter)

Next == WriteBytes \/ Write \/ ReadBytes \/ Read

Spec == Init /\ [][Next]_vars

\* ------------------------------------------------- the conforming client
\* pair members of the lists the conforming client is run on
ClientWrites == {NoneV, BytesV(<<65, 66>>), IntV(7), StrV(<<233>>)}
ClientReads == {NoneV, StrV(<<233, 67>>), ListV(<<67>>), BytesV(<<169>>)}

\* a pair has a non-empty write member, or no write member and a non-empty
\* read member
ClientPairs ==
    {p \in [write : ClientWrites, read : ClientReads] :
        \/ p.write # NoneV /\ to_bytes(p.write) # <<>>
        \/ p.write = NoneV /\ to_bytes(p.read) # <<>>}

InitClient ==
    /\ comm_pairs \in SeqsUpTo(ClientPairs, MaxSteps)
    /\ index = 0
    /\ write_buffer = <<>>
    /\ read_buffer = <<>>
    /\ last = [op |-> "init", content |-> <<>>, command |-> NoneV, count |-> 0,
               err |-> "none", ret |-> <<>>,
               pre |-> [index |-> 0, write_buffer |-> <<>>, read_buffer |-> <<>>]]
    /\ delivered = <<>>
    /\ norm_input = NoneV
    /\ norm_output = <<>>

\* the commands of the write made after the last pair, one of them a text
\* that does not encode
ClientCommands == Commands \cup {StrV(<<55296>>)}

\* the last call was made after every pair had been handled
ExtraCall ==
    /\ last.op # "init"
    /\ last.pre.index = Len(comm_pairs)
    /\ last.pre.read_buffer = <<>>

\* the client writes the write member of the pair it has come to
ClientWrite ==
    /\ last.err = "none"
    /\ read_buffer = <<>>
    /\ index < Len(comm_pairs)
    /\ comm_pairs[index + 1].write # NoneV
    /\ Apply(write(Adapter, comm_pairs[index + 1].write))
    /\ last' = Call("write", <<>>, comm_pairs[index + 1].write, 0,
                    write(Adapter, comm_pairs[index + 1].write))
    /\ UNCHANGED delivered

\* the client reads the response of the pair it has written, or of the pair
\* without write member it has come to
ClientRead ==
    /\ last.err = "none"
    /\ \/ read_buffer # <<>>
       \/ index < Len(comm_pairs) /\ comm_pairs[index + 1].write = NoneV
    /\ Apply(read(Adapter))
    /\ last' = Call("read", <<>>, NoneV, 0, read(Adapter))
    /\ delivered' = delivered \o read_returned(Adapter)

\* one more write after the last pair
ExtraWrite ==
    /\ last.err = "none"
    /\ index = Len(comm_pairs)
    /\ read_buffer = <<>>
    /\ ~ExtraCall
    /\ \E command \in ClientCommands :
          /\ Apply(write(Adapter, command))
          /\ last' = Call("write", <<>>, command, 0, write(Adapter, command))
    /\ UNCHANGED delivered

\* one more read after the last pair
ExtraRead ==
    /\ last.err = "none"
    /\ index = Len(comm_pairs)
    /\ read_buffer = <<>>
    /\ ~ExtraCall
    /\ Apply(read(Adapter))
    /\ last' = Call("read", <<>>, NoneV, 0, read(Adapter))
    /\ delivered' = delivered \o read_returned(Adapter)

NextClient == ClientWrite \/ ClientRead \/ ExtraWrite \/ ExtraRead

SpecClient == InitClient /\ [][NextClient]_vars

\* --------------------------------------------------- to_bytes on its own
\* the supported shapes: bytes, text (also with a lone surrogate, which
\* does not encode), lists (also with 256, which is no byte), integers, None
NormInputs ==
    {BytesV(b) : b \in SeqsUpTo({65, 233}, MaxNormLen)}
    \cup {StrV(t) : t \in SeqsUpTo({65, 233, 8364, 55296}, MaxNormLen)}
    \cup {ListV(l) : l \in SeqsUpTo({0, 65, 255, 256}, MaxNormLen)}
    \cup {IntV(n) : n \in (0 - MaxNormInt)..MaxNormInt}
    \cup {NoneV}

InitNormalize ==
    /\ comm_pairs = <<>>
    /\ index = 0
    /\ write_buffer = <<>>
    /\ read_buffer = <<>>
    /\ last = [op |-> "init", content |-> <<>>, command |-> NoneV, count |-> 0,
               err |-> "none", ret |-> <<>>,
               pre |-> [index |-> 0, write_buffer |-> <<>>, read_buffer |-> <<>>]]
    /\ delivered = <<>>
    /\ norm_input \in NormInputs
    /\ norm_output = <<>>

\* the outcome of to_bytes(command): the exception raised and the bytes
to_bytes_outcome(command) ==
    [err |-> to_bytes_raises(command),
     val |-> IF to_bytes_raises(command) = "none" THEN to_bytes(command) ELSE <<>>]

\* to_bytes applied to norm_input, then to the bytes object it returned
Normalize ==
    /\ Len(norm_output) < 2
    /\ norm_output # <<>> => norm_output[Len(norm_output)].err = "none"
    /\ norm_output' = Append(norm_output,
                             to_bytes_outcome(IF norm_output = <<>> THEN norm_input
                                              ELSE BytesV(norm_output[Len(norm_output)].val)))
    /\ UNCHANGED <<comm_pairs, index, write_buffer, read_buffer, last, delivered,
                   norm_input>>

NextNormalize == Normalize

SpecNormalize == InitNormalize /\ [][NextNormalize]_vars

\* ------------------------------------------------------------- properties
Length == Len(comm_pairs)
ExpectedWrite(i) == to_bytes(comm_pairs[i + 1].write)
CannedRead(i) == to_bytes(comm_pairs[i + 1].read)

IsPrefix(a, b) == Len(a) <= Len(b) /\ a = SubSeq(b, 1, Len(a))

\* the last call wrote bytes: write_bytes, or a write whose command normalised
IsWriteCall ==
    \/ last.op = "write_bytes"
    \/ last.op = "write" /\ to_bytes_raises(last.command) = "none"

\* the bytes the last write or write_bytes call appended
Written == IF last.op = "write" THEN to_bytes(last.command) ELSE last.content

\* the accumulated bytes right after the append of the last write call
Accumulated == last.pre.write_buffer \o Written

IsReadCall == last.op \in {"read_bytes", "read"}

\* C1: write_bytes on a current step with nothing unread, whose accumulated
\* bytes equal the step's expected write, empties the write buffer, loads
\* the step's canned read and advances the index by exactly one.
C1_MatchLoadsRead ==
    ( /\ last.op = "write_bytes"
      /\ last.pre.index < Length
      /\ last.pre.read_buffer = <<>>
      /\ Accumulated = ExpectedWrite(last.pre.index) )
    => /\ last.err = "none"
       /\ write_buffer = <<>>
       /\ read_buffer = CannedRead(last.pre.index)
       /\ index = last.pre.index + 1

C1_Witness ==
    /\ last.op = "write_bytes"
    /\ last.pre.index < Length
    /\ last.pre.read_buffer = <<>>
    /\ last.content # <<>>
    /\ Accumulated = ExpectedWrite(last.pre.index)
    /\ read_buffer # <<>>
    /\ index = last.pre.index + 1

\* C2: write_bytes fails whenever the accumulated bytes are neither the
\* current step's expected write nor a prefix of it.
C2_MismatchFails ==
    ( /\ last.op = "write_bytes"
      /\ last.pre.index < Length
      /\ ~IsPrefix(Accumulated, ExpectedWrite(last.pre.index)) )
    => last.err # "none"

\* C3: with nothing unread, a non-empty chunk that keeps the write buffer a
\* proper prefix of the expected write succeeds and changes the write buffer
\* only; the chunk that completes the expected write advances the index by
\* one and loads the canned read.
C3_ChunkedWrite ==
    ( /\ last.op = "write_bytes"
      /\ last.pre.index < Length
      /\ last.pre.read_buffer = <<>>
      /\ last.content # <<>>
      /\ IsPrefix(last.pre.write_buffer, ExpectedWrite(last.pre.index))
      /\ IsPrefix(Accumulated, ExpectedWrite(last.pre.index)) )
    => /\ last.err = "none"
       /\ IF Accumulated = ExpectedWrite(last.pre.index)
          THEN /\ index = last.pre.index + 1
               /\ read_buffer = CannedRead(last.pre.index)
               /\ write_buffer = <<>>
          ELSE /\ index = last.pre.index
               /\ read_buffer = last.pre.read_buffer
               /\ write_buffer = Accumulated

\* the last chunk of a split in at least two chunks has completed the write
C3_Witness ==
    /\ last.op = "write_bytes"
    /\ last.err = "none"
    /\ last.pre.index < Length
    /\ last.pre.read_buffer = <<>>
    /\ last.pre.write_buffer # <<>>
    /\ last.content # <<>>
    /\ Accumulated = ExpectedWrite(last.pre.index)
    /\ index = last.pre.index + 1
    /\ read_buffer = CannedRead(last.pre.index)

\* C4 as claimed: write returns normally only with an empty write buffer,
\* and fails whenever the accumulated bytes differ from the expected write.
C4_WriteFailsUnlessEqual ==
    /\ (last.op = "write" /\ last.err = "none") => write_buffer = <<>>
    /\ ( /\ last.op = "write"
         /\ to_bytes_raises(last.command) = "none"
         /\ last.pre.index < Length
         /\ Accumulated # ExpectedWrite(last.pre.index) )
       => last.err # "none"

\* C4: write returns normally only with an empty write buffer, and fails
\* whenever the accumulated bytes are non-empty and differ from the current
\* step's expected write.
C4_WriteFailsOnLeftover ==
    /\ (last.op = "write" /\ last.err = "none") => write_buffer = <<>>
    /\ ( /\ last.op = "write"
         /\ to_bytes_raises(last.command) = "none"
         /\ last.pre.index < Length
         /\ Accumulated # <<>>
         /\ Accumulated # ExpectedWrite(last.pre.index) )
       => last.err # "none"

\* write of a proper, non-empty prefix of the expected write has failed
C4_Witness ==
    /\ last.op = "write"
    /\ to_bytes_raises(last.command) = "none"
    /\ last.pre.index < Length
    /\ Accumulated # <<>>
    /\ Accumulated # ExpectedWrite(last.pre.index)
    /\ IsPrefix(Accumulated, ExpectedWrite(last.pre.index))
    /\ last.err = "WriteNotMatched"

\* C5: a write or write_bytes call that completes the expected write while a
\* response is unread fails on the unread response and keeps the index and
\* the read buffer.
C5_UnreadResponseKept ==
    ( /\ IsWriteCall
      /\ last.pre.index < Length
      /\ last.pre.read_buffer # <<>>
      /\ Accumulated = ExpectedWrite(last.pre.index) )
    => /\ last.err = "UnreadResponse"
       /\ index = last.pre.index
       /\ read_buffer = last.pre.read_buffer

C5_Witness ==
    /\ IsWriteCall
    /\ last.pre.index < Length
    /\ last.pre.read_buffer # <<>>
    /\ Written # <<>>
    /\ Accumulated = ExpectedWrite(last.pre.index)
    /\ last.err = "UnreadResponse"

\* C6: read_bytes with any count, and read, entered with an empty read
\* buffer at a step whose write member is present, fail as an unexpected
\* read and change nothing; no read moves the index past a step that has a
\* write member.
C6_ReadBeforeWriteFails ==
    /\ ( /\ IsReadCall
         /\ last.pre.read_buffer = <<>>
         /\ last.pre.index < Length
         /\ comm_pairs[last.pre.index + 1].write # NoneV )
       => /\ last.err = "UnexpectedRead"
          /\ Adapter = last.pre
    /\ IsReadCall =>
          \A i \in last.pre.index..(index - 1) : comm_pairs[i + 1].write = NoneV

C6_Witness ==
    /\ IsReadCall
    /\ last.pre.read_buffer = <<>>
    /\ last.pre.index < Length
    /\ comm_pairs[last.pre.index + 1].write # NoneV
    /\ last.err = "UnexpectedRead"
    /\ last.pre.index > 0

\* C7: at the end of the list every write and write_bytes call fails, every
\* read_bytes and read call entered with an empty read buffer fails, for
\* want of a pair unless the command itself is rejected, and the index stays
\* at the length.
C7_ExhaustedFails ==
    last.pre.index = Length =>
       /\ index = Length
       /\ last.op \in {"write", "write_bytes"} => last.err # "none"
       /\ IsWriteCall => last.err = "IndexError"
       /\ (IsReadCall /\ last.pre.read_buffer = <<>>) => last.err = "IndexError"

C7_Witness ==
    /\ Length > 0
    /\ last.pre.index = Length
    /\ last.pre.read_buffer = <<>>
    /\ last.op = "read"
    /\ last.err = "IndexError"

\* C8: read_bytes with count >= 0 on a non-empty read buffer returns its
\* first min(count, length) bytes, removes exactly those from the front and
\* keeps the index and the write buffer.
C8_ChunkedRead ==
    ( /\ last.op = "read_bytes"
      /\ last.count >= 0
      /\ last.pre.read_buffer # <<>> )
    => LET n == Min(last.count, Len(last.pre.read_buffer)) IN
       /\ last.err = "none"
       /\ last.ret = SubSeq(last.pre.read_buffer, 1, n)
       /\ read_buffer = SubSeq(last.pre.read_buffer, n + 1, Len(last.pre.read_buffer))
       /\ index = last.pre.index
       /\ write_buffer = last.pre.write_buffer

\* a second, shorter chunk of a canned read has been returned
C8_Witness ==
    /\ last.op = "read_bytes"
    /\ last.count > Len(last.pre.read_buffer)
    /\ last.pre.read_buffer # <<>>
    /\ index > 0
    /\ Len(last.pre.read_buffer) < Len(CannedRead(index - 1))
    /\ last.ret = last.pre.read_buffer
    /\ read_buffer = <<>>

\* C9 as claimed: read_bytes with a negative count on a non-empty read
\* buffer returns all buffered bytes and leaves the read buffer empty.
C9_NegativeCountDrainsAll ==
    ( /\ last.op = "read_bytes"
      /\ last.count < 0
      /\ last.pre.read_buffer # <<>> )
    => /\ last.err = "none"
       /\ last.ret = last.pre.read_buffer
       /\ read_buffer = <<>>
       /\ index = last.pre.index

\* C9: read_bytes with a negative count -k on a non-empty read buffer
\* returns the buffered bytes but the last k, keeps those last bytes in the
\* read buffer, and neither advances the index nor loads a step.
C9_NegativeCountKeepsTail ==
    ( /\ last.op = "read_bytes"
      /\ last.count < 0
      /\ last.pre.read_buffer # <<>> )
    => LET n == Max(Len(last.pre.read_buffer) + last.count, 0) IN
       /\ last.err = "none"
       /\ last.ret = SubSeq(last.pre.read_buffer, 1, n)
       /\ read_buffer = SubSeq(last.pre.read_buffer, n + 1, Len(last.pre.read_buffer))
       /\ index = last.pre.index
       /\ write_buffer = last.pre.write_buffer

C9_Witness ==
    /\ last.op = "read_bytes"
    /\ last.count = -1
    /\ Len(last.pre.read_buffer) = 3
    /\ Len(last.ret) = 2
    /\ Len(read_buffer) = 1
    /\ index = last.pre.index

\* C10: read_bytes with count >= 0, entered with an empty read buffer at a
\* step without write member, returns the first count bytes of the step's
\* canned read, keeps the rest in the read buffer, advances the index by one
\* and keeps the write buffer.
C10_OnDemandLoad ==
    ( /\ last.op = "read_bytes"
      /\ last.count >= 0
      /\ last.pre.read_buffer = <<>>
      /\ last.pre.index < Length
      /\ comm_pairs[last.pre.index + 1].write = NoneV )
    => LET canned == CannedRead(last.pre.index)
           n == Min(last.count, Len(canned))
       IN  /\ last.err = "none"
           /\ last.ret = SubSeq(canned, 1, n)
           /\ read_buffer = SubSeq(canned, n + 1, Len(canned))
           /\ index = last.pre.index + 1
           /\ write_buffer = last.pre.write_buffer

C10_Witness ==
    /\ last.op = "read_bytes"
    /\ last.count > 0
    /\ last.pre.read_buffer = <<>>
    /\ last.pre.index < Length
    /\ comm_pairs[last.pre.index + 1].write = NoneV
    /\ last.ret # <<>>
    /\ read_buffer # <<>>
    /\ index = last.pre.index + 1

\* C11 as claimed: read on a non-empty read buffer returns all buffered
\* bytes as text, whatever they are.
C11_ReadReturnsBuffer ==
    (last.op = "read" /\ last.pre.read_buffer # <<>>)
    => /\ last.err = "none"
       /\ last.ret = Decode(last.pre.read_buffer)
       /\ read_buffer = <<>>
       /\ index = last.pre.index

\* C11: read on a non-empty read buffer empties it and neither advances the
\* index nor loads a step; it returns all buffered bytes as text when they
\* are valid UTF-8, also when only one byte is buffered, and fails to decode
\* otherwise.
C11_ReadDrainsBuffer ==
    (last.op = "read" /\ last.pre.read_buffer # <<>>)
    => /\ read_buffer = <<>>
       /\ index = last.pre.index
       /\ write_buffer = last.pre.write_buffer
       /\ IF CanDecode(last.pre.read_buffer)
          THEN last.err = "none" /\ last.ret = Decode(last.pre.read_buffer)
          ELSE last.err = "UnicodeDecodeError"

\* read has returned a buffer of a single byte
C11_Witness ==
    /\ last.op = "read"
    /\ Len(last.pre.read_buffer) = 1
    /\ last.err = "none"
    /\ last.ret = last.pre.read_buffer
    /\ read_buffer = <<>>
    /\ index = last.pre.index

\* C12: read entered with an empty read buffer at a step without write
\* member loads that one step: it returns the step's whole canned read,
\* advances the index by exactly one and leaves the read buffer empty, also
\* when the canned read is absent or empty.
C12_ReadLoadsOneStep ==
    ( /\ last.op = "read"
      /\ last.pre.read_buffer = <<>>
      /\ last.pre.index < Length
      /\ comm_pairs[last.pre.index + 1].write = NoneV )
    => /\ last.err = "none"
       /\ last.ret = Decode(CannedRead(last.pre.index))
       /\ index = last.pre.index + 1
       /\ read_buffer = <<>>

\* C13: the index starts at 0 and stays within 0..length; a write_bytes or
\* read_bytes call leaves it or adds one to it, and adds one only by
\* completing the expected write or by loading a step on demand.
C13_IndexMonotone ==
    /\ index >= 0 /\ index <= Length
    /\ last.op = "init" => index = 0
    /\ last.op \in {"write_bytes", "read_bytes"} =>
          /\ index \in {last.pre.index, last.pre.index + 1}
          /\ index = last.pre.index + 1 =>
                /\ last.pre.index < Length
                /\ last.err = "none"
                /\ \/ /\ last.op = "write_bytes"
                      /\ Accumulated = ExpectedWrite(last.pre.index)
                   \/ /\ last.op = "read_bytes"
                      /\ last.pre.read_buffer = <<>>
                      /\ comm_pairs[last.pre.index + 1].write = NoneV

\* the index has reached the end of a list of two or more pairs
C13_Witness ==
    /\ Length >= 2
    /\ index = Length
    /\ last.op = "read_bytes"
    /\ index = last.pre.index + 1

\* the canned reads of the pairs before index n, concatenated
RECURSIVE CannedUpTo(_)
CannedUpTo(n) == IF n = 0 THEN <<>> ELSE CannedUpTo(n - 1) \o CannedRead(n - 1)

\* C14: the bytes returned by the read_bytes calls so far, followed by the
\* read buffer, are the canned reads of the pairs before the index, in
\* order: nothing is lost, duplicated or reordered.
C14_FifoDelivery == delivered \o read_buffer = CannedUpTo(index)

\* part of a second canned read has been delivered and part is buffered
C14_Witness ==
    /\ index = 2
    /\ Len(delivered) > Len(CannedRead(0))
    /\ CannedRead(0) # <<>>
    /\ read_buffer # <<>>
    /\ last.op = "read_bytes"

\* C17 as claimed: read_bytes with a negative count loading a step on
\* demand returns the step's whole canned read and leaves nothing buffered.
C17_NegativeLoadReturnsAll ==
    ( /\ last.op = "read_bytes"
      /\ last.count < 0
      /\ last.pre.read_buffer = <<>>
      /\ last.pre.index < Length
      /\ comm_pairs[last.pre.index + 1].write = NoneV )
    => /\ last.err = "none"
       /\ index = last.pre.index + 1
       /\ last.ret = CannedRead(last.pre.index)
       /\ read_buffer = <<>>

\* C17: read_bytes with a negative count -k, entered with an empty read
\* buffer at a step without write member, loads the step, advances the index
\* by one, returns the canned read but its last k bytes and keeps those last
\* bytes in the read buffer.
C17_NegativeLoadKeepsTail ==
    ( /\ last.op = "read_bytes"
      /\ last.count < 0
      /\ last.pre.read_buffer = <<>>
      /\ last.pre.index < Length
      /\ comm_pairs[last.pre.index + 1].write = NoneV )
    => LET canned == CannedRead(last.pre.index)
           n == Max(Len(canned) + last.count, 0)
       IN  /\ last.err = "none"
           /\ index = last.pre.index + 1
           /\ last.ret = SubSeq(canned, 1, n)
           /\ read_buffer = SubSeq(canned, n + 1, Len(canned))
           /\ write_buffer = last.pre.write_buffer

C17_Witness ==
    /\ last.op = "read_bytes"
    /\ last.count = -1
    /\ last.pre.read_buffer = <<>>
    /\ index = last.pre.index + 1
    /\ Len(last.ret) = 2
    /\ Len(read_buffer) = 1

\* a write call has just completed the expected write of a pair whose read
\* member is absent, and the next call is a write call whose accumulated
\* bytes are the next pair's expected write
C18_Step ==
    ( /\ IsWriteCall
      /\ last.err = "none"
      /\ index = last.pre.index + 1
      /\ comm_pairs[last.pre.index + 1].read = NoneV
      /\ IsWriteCall'
      /\ index < Length
      /\ Accumulated' = ExpectedWrite(index) )
    => /\ read_buffer = <<>>
       /\ last'.err = "none"
       /\ index' = last.pre.index + 2

\* C18: after a write that matches a pair without read member the read
\* buffer is empty, so a write matching the next pair succeeds right after
\* it, and the two writes advance the index by two.
C18_WriteAfterAbsentRead == [][C18_Step]_vars

\* a second write has matched with no byte read since construction
C18_Witness ==
    /\ IsWriteCall
    /\ last.err = "none"
    /\ last.pre.index = 1
    /\ index = 2
    /\ comm_pairs[1].write # NoneV
    /\ comm_pairs[1].read = NoneV
    /\ Written # <<>>
    /\ delivered = <<>>

\* a failing write call keeps the index and the read buffer and leaves its
\* bytes in the write buffer; a write_bytes call right after a failed write
\* call that brings the buffer to the expected write completes the match
C19_Step ==
    /\ (IsWriteCall' /\ last'.err # "none")
       => /\ index' = index
          /\ read_buffer' = read_buffer
          /\ write_buffer' = write_buffer \o Written'
    /\ ( /\ IsWriteCall
         /\ last.err # "none"
         /\ last'.op = "write_bytes"
         /\ index < Length
         /\ read_buffer = <<>>
         /\ write_buffer \o last'.content = ExpectedWrite(index) )
       => /\ last'.err = "none"
          /\ index' = index + 1
          /\ write_buffer' = <<>>
          /\ read_buffer' = CannedRead(index)

\* C19: a failed write or write_bytes call leaves the index and the read
\* buffer unchanged and is not rolled back: its bytes stay appended to the
\* write buffer, so a later write_bytes with the missing bytes completes the
\* match.
C19_FailedWriteKeepsBytes == [][C19_Step]_vars

\* a write of a non-empty proper prefix has failed and its bytes are kept
C19_Witness ==
    /\ last.op = "write"
    /\ last.err = "WriteNotMatched"
    /\ last.pre.write_buffer = <<>>
    /\ Written # <<>>
    /\ write_buffer = Written
    /\ Len(write_buffer) < Len(ExpectedWrite(index))
    /\ IsPrefix(write_buffer, ExpectedWrite(index))
    /\ index = last.pre.index

\* C16: to_bytes applied to its own result returns that result, for bytes,
\* text, lists of byte values, integers and None, and a bytes object comes
\* back unchanged.
C16_NormalizeIdempotent ==
    /\ Len(norm_output) = 2
       => /\ norm_output[2].err = "none"
          /\ norm_output[2].val = norm_output[1].val
    /\ (norm_input.tag = "bytes" /\ Len(norm_output) >= 1)
       => /\ norm_output[1].err = "none"
          /\ norm_output[1].val = norm_input.val

\* a text whose encoding differs from its code points was normalised twice
C16_Witness ==
    /\ Len(norm_output) = 2
    /\ norm_input.tag = "str"
    /\ norm_output[1].val # norm_input.val
    /\ Len(norm_output[1].val) > Len(norm_input.val)
    /\ norm_output[2] = norm_output[1]

\* the conforming client's run: no call made for a pair fails, a write
\* consumes its pair, a read returns the canned read of its pair as text,
\* the run ends at the end of the list with both buffers empty, and one more
\* call fails
ClientRun ==
    /\ (last.op # "init" /\ ~ExtraCall) => last.err = "none"
    /\ (last.op = "write" /\ ~ExtraCall)
       => /\ index = last.pre.index + 1
          /\ write_buffer = <<>>
    /\ (last.op = "read" /\ ~ExtraCall)
       => /\ last.err = "none"
          /\ last.ret = Decode(CannedRead(index - 1))
          /\ read_buffer = <<>>
          /\ write_buffer = <<>>
    /\ (index = Length /\ read_buffer = <<>> /\ ~ExtraCall) => write_buffer = <<>>
    /\ ExtraCall => (last.err # "none" /\ index = Length /\ read_buffer = <<>>)

\* C15 as claimed: the conforming client's run goes through on every list
\* whose pairs have a non-empty write member or no write member and a
\* non-empty read member.
C15_ClientNeverFails == ClientRun

\* every read member of the list is valid UTF-8
AllDecodable == \A i \in 1..Length : CanDecode(to_bytes(comm_pairs[i].read))

\* C15: the conforming client's run goes through on every such list whose
\* canned reads are valid UTF-8.
C15_ClientOnTextNeverFails == AllDecodable => ClientRun

\* two responses were read in a run of two pairs and one more call failed
C15_Witness ==
    /\ AllDecodable
    /\ Length = 2
    /\ index = 2
    /\ CannedRead(0) # <<>>
    /\ CannedRead(1) # <<>>
    /\ delivered = CannedUpTo(2)
    /\ ExtraCall
    /\ last.err = "IndexError"
====
